---- MODULE Spec2Model ----
(***************************************************************************)
(* Model of the process bridge of bifrost/py_nodejs.py: the Node           *)
(* supervisor (the coordinator, running on the caller's thread), the        *)
(* NodeSTDProc monitor threads, the module-wide NODE_IS_RUNNING flag and    *)
(* the module-wide NODE_LOCK.                                               *)
(*                                                                         *)
(* Threads are numbered: 0 is the coordinator, m >= 1 is the monitor bound *)
(* to the companion process in slot m (init_process creates both           *)
(* together). A slot is used again once its monitor thread has ended.      *)
(***************************************************************************)
EXTENDS Integers, Naturals, Sequences, FiniteSets, TLC

\* ---------------------------------------------------------------- bounds
\* Number of replaced (stopped) monitor threads that may still be running at
\* the same time, next to the current one.
MaxLingering == 1
\* Number of KeyboardInterrupts delivered during one Node.run call.
MaxInterrupts == 1
\* Longest tail of a script whose frame is followed character by character.
MaxTail == 2

\* ------------------------------------------------------- program constants
\* 16**8 in Node.write: the radix and the number of header digits.
Radix == 16
HeaderDigits == 8
\* len(json.dumps({'script': ''})): the characters json.dumps adds around s.
WrapperLen == 14

\* Thread ids: the coordinator (the caller's thread) and "no thread".
Coord == 0
None == Coord - 1
Procs == 1..(MaxLingering + 1)

VARIABLES
    running,    \* NODE_IS_RUNNING
    writer,     \* NODE_LOCK: the thread holding it for writing, or None
    readers,    \* NODE_LOCK: number of read holds
    proc,       \* self.process (and self.nstdproc): the current companion's slot
    procState,  \* per process: "none" (not spawned), "alive", "signalled"
                \* (SIGTERM sent: it exits at some later moment, which only
                \* its monitor's poll() observes), "exited", "gone" (Untrack),
                \* "suspended" (SIGSTOP delivered: it neither runs nor exits)
    stopped,    \* per monitor: _stop_event
    mpc,        \* per monitor: position in NodeSTDProc.run; "none" (not
                \* started), "dead" (run returned), "crashed" (run raised)
    pc,         \* the coordinator's position
    loc,        \* the coordinator's locals in Node.run: script, timeout, flag, late
    hist,       \* what the current / last run did (observation only)
    \* Node.write's frame, followed on one call from the text to the companion
    wtext,      \* the script s: [pad, tail], pad plain characters, then tail
    wframe,     \* the bytes written to stdin: [head, pad, body], or NoFrame
    wparsed,    \* the script the companion has read from the frame
    fpc,        \* "idle", "start", "sent", "refused", "parsed"
    \* the pull at the end of Node.run, followed on one call
    vars0,      \* the caller's vars as they were before the pull
    cvars,      \* the caller's vars (the dict the loop of line 314 assigns to)
    new_vars,   \* what syncfrom returned
    keys,       \* the keys of new_vars the loop has not visited yet
    gpc,        \* "idle", "start", "merge", "done"
    \* the vars parameter of Node.run over successive calls
    defaults,   \* the dict made once for the default value of vars (line 263)
    byDefault,  \* the call in progress was given no vars: vars is that dict
    given,      \* the dict the caller passed, when it passed one
    pushed,     \* what syncto was given in the call in progress
    pulledv,    \* what syncfrom returned in the call in progress
    dpc         \* "idle", "synced" (syncto done), "ret" (merge done)

bridgeVars == <<running, writer, readers, proc, procState, stopped, mpc, pc, loc, hist>>
frameVars == <<wtext, wframe, wparsed, fpc>>
mergeVars == <<vars0, cvars, new_vars, keys, gpc>>
callVars == <<defaults, byDefault, given, pushed, pulledv, dpc>>
dataVars == <<frameVars, mergeVars, callVars>>
vars == <<bridgeVars, dataVars>>

lockVars == <<writer, readers>>
procVars == <<proc, procState, stopped>>

\* ------------------------------------------------------------ frame sizes
\* Python integers are unbounded and 16**8 = 2^32 does not fit TLC's integers:
\* a length n is the pair <<hi, lo>> with n = hi * Half + lo, 0 <= lo < Half.
Half == Radix ^ 4

NumGE(a, b) == a[1] > b[1] \/ (a[1] = b[1] /\ a[2] >= b[2])

NumAdd(a, k) ==
    LET s == a[2] + k IN <<a[1] + (s \div Half), s % Half>>

\* 16**8
Limit == <<Half, 0>>

RECURSIVE DigitsOf(_)
DigitsOf(k) == IF k < Radix THEN <<k>> ELSE DigitsOf(k \div Radix) \o <<k % Radix>>

RECURSIVE ZFill(_, _)
ZFill(ds, w) == IF Len(ds) >= w THEN ds ELSE ZFill(<<0>> \o ds, w)

\* str(hex(n))[2:]: the hexadecimal digits of n, most significant first.
HexStr(n) ==
    IF n[1] = 0 THEN DigitsOf(n[2]) ELSE DigitsOf(n[1]) \o ZFill(DigitsOf(n[2]), 4)

\* len(json.dumps({'script': s})) for a script of plain characters.
MsgLength(slen) == NumAdd(slen, WrapperLen)

\* The test of Node.write line 343 on msg_length_int = n.
SizeTest(n) == Len(HexStr(n)) > HeaderDigits \/ NumGE(n, Limit)

Oversized(slen) == SizeTest(MsgLength(slen))

\* Script lengths offered to Node.run, on both sides of the limit: the longest
\* script whose message still fits, and the shortest whose message does not.
ScriptLens ==
    { <<Half - 1, Half - WrapperLen - 1>>,
      <<Half - 1, Half - WrapperLen>> }

\* ------------------------------------------------------------ frame bytes
\* Kinds of character in a script: a plain ASCII letter, the double quote, the
\* line feed, U+00E9 (two bytes in UTF-8) and U+1F600 (four bytes, outside the
\* basic plane).
Chars == {"a", "\"", "LF", "E9", "1F600"}

\* json.dumps of one character of a string, ensure_ascii being left True:
\* the characters (all ASCII) that stand for it.
Escape(c) ==
    CASE c = "a" -> <<"a">>
      [] c = "\"" -> <<"\\", "\"">>
      [] c = "LF" -> <<"\\", "n">>
      [] c = "E9" -> <<"\\", "u", "0", "0", "e", "9">>
      [] c = "1F600" -> <<"\\", "u", "d", "8", "3", "d", "\\", "u", "d", "e", "0", "0">>

RECURSIVE EscapeAll(_)
EscapeAll(text) ==
    IF text = <<>> THEN <<>> ELSE Escape(Head(text)) \o EscapeAll(Tail(text))

\* What json.dumps puts before and after the string: {"script": " and "}
DumpsPrefix == <<"{", "\"", "s", "c", "r", "i", "p", "t", "\"", ":", " ", "\"">>
DumpsSuffix == <<"\"", "}">>

\* Faulty JsonDumps, of which C17 does not hold: ensure_ascii=False, the
\* characters outside ASCII are written as they are.
RECURSIVE EscapeAll_NonAscii(_)
EscapeAll_NonAscii(text) ==
    IF text = <<>> THEN <<>>
    ELSE (IF Head(text) \in {"E9", "1F600"} THEN <<Head(text)>>
          ELSE Escape(Head(text))) \o EscapeAll_NonAscii(Tail(text))

JsonDumps_NonAscii(tail) == DumpsPrefix \o EscapeAll_NonAscii(tail) \o DumpsSuffix

\* json.dumps({'script': s}) without the run of pad plain characters, which
\* stands right after the prefix.
JsonDumps(tail) == DumpsPrefix \o EscapeAll(tail) \o DumpsSuffix

\* .encode('utf-8') of one character: its bytes (an ASCII character is the
\* byte of the same name).
Utf8(c) ==
    CASE c = "E9" -> <<"xC3", "xA9">>
      [] c = "1F600" -> <<"xF0", "x9F", "x98", "x80">>
      [] c = "LF" -> <<"x0A">>
      [] OTHER -> <<c>>

RECURSIVE Encode(_)
Encode(chars) ==
    IF chars = <<>> THEN <<>> ELSE Utf8(Head(chars)) \o Encode(Tail(chars))

\* The characters hex() writes the digits with
HexChars == <<"0", "1", "2", "3", "4", "5", "6", "7", "8", "9",
              "a", "b", "c", "d", "e", "f">>

HexText(ds) == [i \in 1..Len(ds) |-> HexChars[ds[i] + 1]]

\* msg_head = 'E' + msg_length_str.zfill(8) + 'C'
MsgHead(n) == <<"E">> \o HexText(ZFill(HexStr(n), HeaderDigits)) \o <<"C">>

\* ---- the companion's side of the frame (its code is not among the sources)
\* The value of 4 hexadecimal digit characters
HexVal4(cs) ==
    LET d(i) == CHOOSE k \in 0..(Radix - 1) : HexChars[k + 1] = cs[i]
    IN  ((d(1) * Radix + d(2)) * Radix + d(3)) * Radix + d(4)

\* The length the 10 characters of a header declare
HeadValue(head) == <<HexVal4(SubSeq(head, 2, 5)), HexVal4(SubSeq(head, 6, 9))>>

\* The characters a sequence of UTF-8 bytes stands for
RECURSIVE Utf8Decode(_)
Utf8Decode(bs) ==
    IF bs = <<>> THEN <<>>
    ELSE IF Len(bs) >= 2 /\ SubSeq(bs, 1, 2) = Utf8("E9")
         THEN <<"E9">> \o Utf8Decode(SubSeq(bs, 3, Len(bs)))
    ELSE IF Len(bs) >= 4 /\ SubSeq(bs, 1, 4) = Utf8("1F600")
         THEN <<"1F600">> \o Utf8Decode(SubSeq(bs, 5, Len(bs)))
    ELSE IF Head(bs) = "x0A" THEN <<"LF">> \o Utf8Decode(Tail(bs))
    ELSE <<Head(bs)>> \o Utf8Decode(Tail(bs))

\* The string whose JSON escapes these characters are
RECURSIVE Unescape(_)
Unescape(cs) ==
    IF cs = <<>> THEN <<>>
    ELSE IF \E c \in Chars \ {"a"} :
              Len(cs) >= Len(Escape(c)) /\ SubSeq(cs, 1, Len(Escape(c))) = Escape(c)
         THEN LET c == CHOOSE k \in Chars \ {"a"} :
                         /\ Len(cs) >= Len(Escape(k))
                         /\ SubSeq(cs, 1, Len(Escape(k))) = Escape(k)
              IN  <<c>> \o Unescape(SubSeq(cs, Len(Escape(c)) + 1, Len(cs)))
    ELSE <<Head(cs)>> \o Unescape(Tail(cs))

\* JSON.parse(payload).script, the run of pad plain characters left out; a
\* payload that is not the object json.dumps wrote gives Garbled.
Garbled == [pad |-> <<0, 0>>, tail |-> <<"?">>]

ParseFrame(f) ==
    LET cs == Utf8Decode(f.body)
        np == Len(DumpsPrefix)
        ns == Len(DumpsSuffix)
    IN  IF /\ Len(f.head) = HeaderDigits + 2
           /\ f.head[1] = "E"
           /\ f.head[HeaderDigits + 2] = "C"
           /\ HeadValue(f.head) = NumAdd(f.pad, Len(f.body))
           /\ Len(cs) >= np + ns
           /\ SubSeq(cs, 1, np) = DumpsPrefix
           /\ SubSeq(cs, Len(cs) - ns + 1, Len(cs)) = DumpsSuffix
        THEN [pad |-> f.pad, tail |-> Unescape(SubSeq(cs, np + 1, Len(cs) - ns))]
        ELSE Garbled

\* Scripts whose frame is followed: pad plain characters and a tail of at most
\* MaxTail characters of any kind; the pads put the message length at the
\* least values, across 16**4, and at the limit 16**8.
Tails == UNION {[1..k -> Chars] : k \in 0..MaxTail}
Pads == {<<0, 0>>, <<0, 2>>, <<0, Half - WrapperLen>>,
         <<Half - 1, Half - WrapperLen - 1>>}

\* ------------------------------------------------------------ output lines
\* Kinds of line the companion can print on its stdout.
Lines == {"undecodable", "blank", "garbage", "scalar", "notype", "other", "done"}

\* .decode('utf-8') succeeds: the bytes of the line are valid UTF-8
Decodes(line) == line # "undecodable"

\* json.loads(output) succeeds
Parses(line) == line \in {"scalar", "notype", "other", "done"}
\* output_json['type'] succeeds
HasType(line) == line \in {"other", "done"}

\* What NodeSTDProc.run does with a line read while the process is alive: the
\* decode of line 158 is outside the try block, its exception ends the thread.
LineAction(line) ==
    IF ~Decodes(line) THEN "raise"
    ELSE IF ~Parses(line) THEN "skip"
    ELSE IF ~HasType(line) THEN "skip"
    ELSE IF line = "done" THEN "clear"
    ELSE "print"

\* ---------------------------------------------------------- ReadWriteLock
\* bifrost/ReadWriteLock.py is not among the sources: a multiple-reader /
\* single-writer lock, as the specification describes it. acquire and release
\* look the global NODE_LOCK up when they are called, so writer and readers
\* are the state of the instance NODE_LOCK names now; an instance clean_lock
\* has replaced is referred to by nobody and is not kept.
AcquireWrite(t) ==
    /\ writer = None
    /\ readers = 0
    /\ writer' = t
    /\ UNCHANGED readers

\* release_write by thread t: the hold is given up if t has one on this instance
WriterAfterRelease(t) == IF writer = t THEN None ELSE writer

AcquireRead(t) ==
    /\ writer = None
    /\ readers' = readers + 1
    /\ UNCHANGED writer

ReadersAfterRelease(t) == IF readers > 0 THEN readers - 1 ELSE readers

HoldsWrite(t) == writer = t
HoldsRead(t) == t = Coord /\ readers > 0

\* ----------------------------------------------------------------- history
\* Who thread t is to the dispatch in progress: the coordinator, a monitor
\* that had already been replaced when the frame was dispatched, or a monitor
\* of a process the run was dispatched to or started since.
ClearKind(h, t) ==
    IF t = Coord THEN "coord" ELSE IF t \in h.stale THEN "stale" ELSE "monitor"

\* hist after thread t wrote v to NODE_IS_RUNNING: a change from true to false
\* is counted, with who made it.
HistWrite(h, t, v) ==
    IF running /\ ~v
    THEN [h EXCEPT !.clears = @ + 1, !.lastClear = ClearKind(h, t)]
    ELSE h

\* hist after a monitor made its assignment for a completion line (lines
\* 176-178): if that made running go from true to false after the frame was
\* written, a completion line has unblocked the run's wait.
HistUnblock(h) ==
    IF running /\ h.wrote = "full" THEN [h EXCEPT !.byDone = TRUE] ELSE h

\* hist after monitor m has ended
HistEnded(h, m) == [h EXCEPT !.stale = @ \ {m}]

\* Positions of a monitor thread that is not running
Ended == {"none", "dead", "crashed"}

\* hist after a cancel made inside Node.run: a new process in place is counted
HistRestart(h) == [h EXCEPT !.restarts = IF proc' # proc THEN @ + 1 ELSE @]

\* The message json.dumps makes of a script of this length has 16**8
\* characters or more (the script has 16**8 - WrapperLen or more).
TooLong(slen) ==
    slen[1] >= Half \/ (slen[1] = Half - 1 /\ slen[2] >= Half - WrapperLen)

NoLocals == [script |-> <<0, 0>>, timeout |-> FALSE, flag |-> FALSE, late |-> FALSE]

InitBridge ==
    /\ running = FALSE
    /\ writer = None
    /\ readers = 0
    /\ proc = 1
    /\ procState = [p \in Procs |-> IF p = 1 THEN "alive" ELSE "none"]
    /\ stopped = [p \in Procs |-> FALSE]
    /\ mpc = [p \in Procs |-> IF p = 1 THEN "loop" ELSE "none"]
    /\ pc = "idle"
    /\ loc = NoLocals
    /\ hist = [dispatched |-> FALSE, stale |-> {}, clears |-> 0,
               lastClear |-> "none", restarts |-> 0, outcome |-> "none",
               cause |-> "none", wrote |-> "none", waited |-> FALSE,
               timedOut |-> FALSE, nint |-> 0, intWait |-> FALSE, big |-> FALSE,
               setTrue |-> FALSE, pulled |-> FALSE, killFailed |-> FALSE,
               byDone |-> FALSE]

\* No frame is being followed
NoFrame == [head |-> <<>>, pad |-> <<0, 0>>, body |-> <<>>]
NoText == [pad |-> <<0, 0>>, tail |-> <<>>]

FrameIdle ==
    /\ wtext = NoText
    /\ wframe = NoFrame
    /\ wparsed = NoText
    /\ fpc = "idle"

\* Variable names and values, and the dicts made of them
Names == {"x", "y"}
Vals == {1, 2}
Dicts == UNION {[D -> Vals] : D \in SUBSET Names}
EmptyDict == [n \in {} |-> 1]

\* d after d[k] = v
Put(d, k, v) == [n \in DOMAIN d \cup {k} |-> IF n = k THEN v ELSE d[n]]

\* No pull is being followed
MergeIdle ==
    /\ vars0 = EmptyDict
    /\ cvars = EmptyDict
    /\ new_vars = EmptyDict
    /\ keys = {}
    /\ gpc = "idle"

\* No call is being followed; the default dict is as def made it: empty
CallIdle ==
    /\ defaults = EmptyDict
    /\ byDefault = FALSE
    /\ given = EmptyDict
    /\ pushed = EmptyDict
    /\ pulledv = EmptyDict
    /\ dpc = "idle"

Init == InitBridge /\ FrameIdle /\ MergeIdle /\ CallIdle

\* ------------------------------------------------- Node.write, frame bytes
\* Node.write is called with a script
InitFrame ==
    /\ InitBridge
    /\ MergeIdle
    /\ CallIdle
    /\ wtext \in [pad : Pads, tail : Tails]
    /\ wframe = NoFrame
    /\ wparsed = NoText
    /\ fpc = "start"

\* Lines 330-349: the message, its length, the size test, the header and the
\* bytes written.
FrameWrite ==
    /\ fpc = "start"
    /\ LET msg_json == JsonDumps(wtext.tail)
           msg_length_int == NumAdd(wtext.pad, Len(msg_json))
       IN  IF SizeTest(msg_length_int)
           THEN /\ fpc' = "refused"
                /\ wframe' = NoFrame
           ELSE /\ fpc' = "sent"
                /\ wframe' = [head |-> MsgHead(msg_length_int),
                              pad |-> wtext.pad,
                              body |-> Encode(msg_json)]
    /\ UNCHANGED <<bridgeVars, callVars, mergeVars, wtext, wparsed>>

\* The companion reads the header, then as many bytes as it declares, and
\* parses them.
FrameParse ==
    /\ fpc = "sent"
    /\ wparsed' = ParseFrame(wframe)
    /\ fpc' = "parsed"
    /\ UNCHANGED <<bridgeVars, callVars, mergeVars, wtext, wframe>>

NextFrame == FrameWrite \/ FrameParse

SpecFrame == InitFrame /\ [][NextFrame]_vars

\* ------------------------------------------------ Node.run, lines 313-316
\* Node.run has left the wait loop; vars is the caller's dict
InitMerge ==
    /\ InitBridge
    /\ FrameIdle
    /\ CallIdle
    /\ cvars \in Dicts
    /\ vars0 = cvars
    /\ new_vars = EmptyDict
    /\ keys = {}
    /\ gpc = "start"

\* new_vars = self.vs.syncfrom(...) (line 313): any dict; for key in
\* new_vars.keys(): all its keys are to be visited.
SyncFrom ==
    /\ gpc = "start"
    /\ new_vars' \in Dicts
    /\ keys' = DOMAIN new_vars'
    /\ gpc' = "merge"
    /\ UNCHANGED <<bridgeVars, callVars, frameVars, vars0, cvars>>

\* Faulty MergeKey, of which C18 does not hold: a name the caller's dict has
\* already is left as it is.
MergeKey_AddOnly ==
    /\ gpc = "merge"
    /\ \E key \in keys :
         /\ cvars' = IF key \in DOMAIN cvars THEN cvars
                     ELSE Put(cvars, key, new_vars[key])
         /\ keys' = keys \ {key}
    /\ UNCHANGED <<bridgeVars, callVars, frameVars, vars0, new_vars, gpc>>

\* vars[key] = new_vars[key] (line 315), for the next key
MergeKey ==
    /\ gpc = "merge"
    /\ \E key \in keys :
         /\ cvars' = Put(cvars, key, new_vars[key])
         /\ keys' = keys \ {key}
    /\ UNCHANGED <<bridgeVars, callVars, frameVars, vars0, new_vars, gpc>>

\* return vars (line 316), the loop being over
MergeReturn ==
    /\ gpc = "merge"
    /\ keys = {}
    /\ gpc' = "done"
    /\ UNCHANGED <<bridgeVars, callVars, frameVars, vars0, cvars, new_vars, keys>>

NextMerge == SyncFrom \/ MergeKey \/ MergeReturn

SpecMerge == InitMerge /\ [][NextMerge]_vars

\* ------------------------------------- the vars parameter of Node.run
\* The dict d after the loop of lines 314-315 has gone through new_vars
Merged(d, nv) ==
    [n \in DOMAIN d \cup DOMAIN nv |-> IF n \in DOMAIN nv THEN nv[n] ELSE d[n]]

\* The dict the name vars refers to in the call in progress
CallVars == IF byDefault THEN defaults ELSE given

\* node.run(script): vars is bound to the default of line 263, the one dict
\* made when the def was executed; syncto is given it (line 273).
RunNoVars ==
    /\ dpc = "idle"
    /\ byDefault' = TRUE
    /\ given' = EmptyDict
    /\ pushed' = defaults
    /\ pulledv' = EmptyDict
    /\ dpc' = "synced"
    /\ UNCHANGED <<bridgeVars, frameVars, mergeVars, defaults>>

\* node.run(script, d): vars is the caller's dict; syncto is given it.
RunWithVars(d) ==
    /\ dpc = "idle"
    /\ byDefault' = FALSE
    /\ given' = d
    /\ pushed' = d
    /\ pulledv' = EmptyDict
    /\ dpc' = "synced"
    /\ UNCHANGED <<bridgeVars, frameVars, mergeVars, defaults>>

\* The run ends completed or timed out: new_vars = syncfrom(...) and the loop
\* assigns every key of it into the dict vars refers to (lines 313-315).
RunMerges(nv) ==
    /\ dpc = "synced"
    /\ pulledv' = nv
    /\ IF byDefault
       THEN defaults' = Merged(defaults, nv) /\ given' = given
       ELSE given' = Merged(given, nv) /\ defaults' = defaults
    /\ dpc' = "ret"
    /\ UNCHANGED <<bridgeVars, frameVars, mergeVars, byDefault, pushed>>

\* The run ends with a failed dispatch (return, line 286) or an interruption:
\* no pull, no merge.
RunNoMerge ==
    /\ dpc = "synced"
    /\ dpc' = "idle"
    /\ UNCHANGED <<bridgeVars, frameVars, mergeVars, defaults, byDefault, given,
                   pushed, pulledv>>

\* return vars (line 316)
RunReturns ==
    /\ dpc = "ret"
    /\ dpc' = "idle"
    /\ UNCHANGED <<bridgeVars, frameVars, mergeVars, defaults, byDefault, given,
                   pushed, pulledv>>

NextCall ==
    \/ RunNoVars
    \/ \E d \in Dicts : RunWithVars(d)
    \/ \E nv \in Dicts : RunMerges(nv)
    \/ RunNoMerge
    \/ RunReturns

SpecCall == Init /\ [][NextCall]_vars

\* ------------------------------------------------------ companion process
\* A companion process that was not signalled exits: it crashed or finished.
ProcExit(p) ==
    /\ procState[p] = "alive"
    /\ procState' = [procState EXCEPT ![p] = "exited"]
    /\ UNCHANGED <<dataVars, running, lockVars, proc, stopped, mpc, pc, loc, hist>>

\* Once the supervisor has dropped process p and its monitor will not call
\* poll() again, no thread examines p any more: its state is no longer followed.
Untrack(ps, p) == [ps EXCEPT ![p] = "gone"]

\* --------------------------------------------------------- NodeSTDProc.run
\* Where the monitor goes after reading a line from a process that poll()
\* finds running
AfterLine(line) ==
    CASE LineAction(line) = "raise" -> "crashed"
      [] LineAction(line) = "clear" -> "d_acq"
      [] OTHER -> "loop"

\* Where the monitor goes after reading what a process that poll() finds
\* exited has left
AfterLast(line) == IF LineAction(line) = "raise" THEN "crashed" ELSE "x_acq"

\* A replaced monitor whose stop event is set (nothing clears the event of a
\* monitor the supervisor has dropped) ends at its next loop test without
\* touching anything, and how it ended (run returned or raised) is seen by
\* nobody: from a position where only that is left, it is taken as ended.
\* After a completion line such a monitor acquires, assigns, releases (lines
\* 176-178) and ends at the loop test, which is step for step what lines
\* 162-165 do: it is followed through the positions of those lines.
EndPcIf(replaced, next) ==
    CASE replaced /\ next \in {"loop", "crashed"} -> "dead"
      [] replaced /\ next = "d_acq" -> "x_acq"
      [] OTHER -> next

EndPc(m, next) == EndPcIf(m # proc /\ stopped[m], next)

\* while not self._stop_event.is_set():
MonLoop(m) ==
    /\ mpc[m] = "loop"
    /\ mpc' = [mpc EXCEPT ![m] = IF stopped[m] THEN "dead" ELSE "read"]
    /\ hist' = IF stopped[m] THEN HistEnded(hist, m) ELSE hist
    /\ UNCHANGED <<dataVars, running, lockVars, procVars, pc, loc>>

\* output = readline().decode('utf-8'); if self.process.poll() is not None:
\* ... (lines 158-161). The line is one the companion prints now, or what was
\* left in the pipe (at last end-of-file) once the process has exited; a
\* signalled process is found exited or still running.
MonRead(m) ==
    /\ mpc[m] = "read"
    /\ \/ /\ procState[m] \in {"exited", "signalled"}
          /\ \E next \in {AfterLast(line) : line \in Lines} :
               mpc' = [mpc EXCEPT ![m] = EndPc(m, next)]
       \/ /\ procState[m] \in {"alive", "signalled"}
          /\ \E next \in {AfterLine(line) : line \in Lines} :
               mpc' = [mpc EXCEPT ![m] = EndPc(m, next)]
    /\ procState' = IF stopped[m] /\ m # proc THEN Untrack(procState, m)
                    ELSE procState
    /\ hist' = IF mpc'[m] \in Ended THEN HistEnded(hist, m) ELSE hist
    /\ UNCHANGED <<dataVars, running, lockVars, proc, stopped, pc, loc>>

\* NODE_LOCK.acquire_write() on the process-exit path (line 162)
MonExitAcq(m) ==
    /\ mpc[m] = "x_acq"
    /\ AcquireWrite(m)
    /\ mpc' = [mpc EXCEPT ![m] = "x_set"]
    /\ UNCHANGED <<dataVars, running, procVars, pc, loc, hist>>

\* NODE_IS_RUNNING = False; NODE_LOCK.release_write(); break (lines 163-165)
MonExitSet(m) ==
    /\ mpc[m] = "x_set"
    /\ running' = FALSE
    /\ hist' = HistEnded(HistWrite(hist, m, FALSE), m)
    /\ writer' = WriterAfterRelease(m)
    /\ mpc' = [mpc EXCEPT ![m] = "dead"]
    /\ UNCHANGED <<dataVars, readers, procVars, pc, loc>>

\* NODE_LOCK.acquire_write() on the completion-line path (line 176)
MonDoneAcq(m) ==
    /\ mpc[m] = "d_acq"
    /\ AcquireWrite(m)
    /\ mpc' = [mpc EXCEPT ![m] = "d_set"]
    /\ UNCHANGED <<dataVars, running, procVars, pc, loc, hist>>

\* NODE_IS_RUNNING = False; NODE_LOCK.release_write(); continue (lines 177-183)
MonDoneSet(m) ==
    /\ mpc[m] = "d_set"
    /\ running' = FALSE
    /\ mpc' = [mpc EXCEPT ![m] = EndPc(m, "loop")]
    /\ hist' = IF mpc'[m] \in Ended
               THEN HistEnded(HistUnblock(HistWrite(hist, m, FALSE)), m)
               ELSE HistUnblock(HistWrite(hist, m, FALSE))
    /\ writer' = WriterAfterRelease(m)
    /\ UNCHANGED <<dataVars, readers, procVars, pc, loc>>

\* ---------------------------------------------- Node.cancel / init_process
\* os.kill(self.process.pid, signal.SIGTERM) (line 368); a kill that fails
\* because the process is gone is swallowed (lines 370-371).
Signalled(ps, p) ==
    IF ps[p] = "alive" THEN [ps EXCEPT ![p] = "signalled"] ELSE ps

\* os.kill raises: the process id is no longer there, the process has exited
\* and its monitor's poll() has collected it.
KillFails(p) == procState[p] = "exited" /\ mpc[p] \in {"x_acq", "x_set", "dead"}

\* The stop events after lines 367-371: nstdproc.stop() follows os.kill in
\* the same try block and is skipped when os.kill raises.
FirstTry(st, p) == IF KillFails(p) THEN st ELSE [st EXCEPT ![p] = TRUE]

\* The stop events after lines 372-375: nstdproc.stop() again
SecondTry(st, p) == [st EXCEPT ![p] = TRUE]

\* The slots whose monitor thread has ended or was never started
FreeSlots == {s \in Procs : s # proc /\ mpc[s] \in Ended}

NewSlot == CHOOSE s \in FreeSlots : \A u \in FreeSlots : s <= u

\* Node.cancel: the signal, nstdproc.stop(), and with restart init_process():
\* a new process and a new, started monitor take the place of the old ones.
\* Of the replaced process only a monitor blocked in readline calls poll()
\* again; a replaced monitor that is at its loop test finds the stop event set
\* (EndPcIf).
\* Faulty Cancel, of which C19 does not hold: the second try block (lines
\* 372-375) is missing.
Cancel_NoSecondStop(restart) ==
    /\ restart => FreeSlots # {}
    /\ IF restart
       THEN /\ proc' = NewSlot
            /\ procState' =
                 [(IF mpc[proc] = "read" THEN Signalled(procState, proc)
                   ELSE Untrack(procState, proc)) EXCEPT ![NewSlot] = "alive"]
            /\ stopped' = [FirstTry(stopped, proc) EXCEPT ![NewSlot] = FALSE]
            /\ mpc' = [mpc EXCEPT ![proc] = EndPcIf(stopped'[proc], @),
                                  ![NewSlot] = "loop"]
       ELSE /\ procState' = Signalled(procState, proc)
            /\ stopped' = FirstTry(stopped, proc)
            /\ UNCHANGED <<proc, mpc>>

Cancel(restart) ==
    /\ restart => FreeSlots # {}
    /\ IF restart
       THEN /\ proc' = NewSlot
            /\ procState' =
                 [(IF mpc[proc] = "read" THEN Signalled(procState, proc)
                   ELSE Untrack(procState, proc)) EXCEPT ![NewSlot] = "alive"]
            /\ stopped' = [SecondTry(FirstTry(stopped, proc), proc) EXCEPT ![NewSlot] = FALSE]
            /\ mpc' = [mpc EXCEPT ![proc] = EndPcIf(stopped'[proc], @),
                                  ![NewSlot] = "loop"]
       ELSE /\ procState' = Signalled(procState, proc)
            /\ stopped' = SecondTry(FirstTry(stopped, proc), proc)
            /\ UNCHANGED <<proc, mpc>>

\* ----------------------------------------------------------------- Node.run
\* run(script, vars, timeout): syncto, then on to line 278.
Run(slen, tmo) ==
    /\ pc = "idle"
    /\ pc' = "r_acq"
    /\ loc' = [script |-> slen, timeout |-> tmo, flag |-> FALSE, late |-> FALSE]
    /\ hist' = [hist EXCEPT !.big = TooLong(slen)]
    /\ UNCHANGED <<dataVars, running, lockVars, procVars, mpc>>

\* NODE_LOCK.acquire_write() (line 278)
RunAcq ==
    /\ pc = "r_acq"
    /\ AcquireWrite(Coord)
    /\ pc' = "r_set"
    /\ UNCHANGED <<dataVars, running, procVars, mpc, loc, hist>>

\* NODE_IS_RUNNING = True; NODE_LOCK.release_write() (lines 279-280)
RunSet ==
    /\ pc = "r_set"
    /\ running' = TRUE
    /\ writer' = WriterAfterRelease(Coord)
    /\ hist' = [hist EXCEPT !.dispatched = TRUE, !.clears = 0, !.lastClear = "none",
                            !.stale = {s \in Procs : s # proc /\ mpc[s] \notin Ended},
                            !.setTrue = ~running, !.byDone = FALSE]
    /\ pc' = "write"
    /\ UNCHANGED <<dataVars, readers, procVars, mpc, loc>>

\* Faulty Write, of which C8 does not hold: the size test is missing.
Write_NoSizeTest ==
    /\ pc = "write"
    /\ \/ /\ procState[proc] \in {"alive", "signalled"}
          /\ pc' = "w_init"
          /\ hist' = [hist EXCEPT !.wrote = "full", !.setTrue = FALSE]
       \/ /\ pc' = "wf_cancel"
          /\ hist' = [hist EXCEPT !.cause = "io", !.wrote = "unknown"]
    /\ loc' = [loc EXCEPT !.script = <<0, 0>>]
    /\ UNCHANGED <<dataVars, running, lockVars, procVars, mpc>>

\* Node.write up to the end of the try block (lines 329-349): the size test,
\* then stdin.write and flush, which fail when the process is gone and may
\* fail otherwise.
Write ==
    /\ pc = "write"
    /\ IF Oversized(loc.script)
       THEN /\ pc' = "wf_cancel"
            /\ hist' = [hist EXCEPT !.cause = "oversized"]
       ELSE \/ /\ procState[proc] \in {"alive", "signalled"}
               /\ pc' = "w_init"
               /\ hist' = [hist EXCEPT !.wrote = "full", !.setTrue = FALSE]
            \/ /\ pc' = "wf_cancel"
               /\ hist' = [hist EXCEPT !.cause = "io", !.wrote = "unknown"]
    /\ loc' = [loc EXCEPT !.script = <<0, 0>>]
    /\ UNCHANGED <<dataVars, running, lockVars, procVars, mpc>>

\* except Exception: self.cancel() (lines 353-359)
WriteFailCancel ==
    /\ pc = "wf_cancel"
    /\ Cancel(TRUE)
    /\ pc' = "wf_acq"
    /\ hist' = [HistRestart(hist) EXCEPT !.killFailed = KillFails(proc)]
    /\ UNCHANGED <<dataVars, running, lockVars, loc>>

\* NODE_LOCK.acquire_write() (line 360)
WriteFailAcq ==
    /\ pc = "wf_acq"
    /\ AcquireWrite(Coord)
    /\ pc' = "wf_set"
    /\ UNCHANGED <<dataVars, running, procVars, mpc, loc, hist>>

\* Faulty WriteFailSet, of which C9 does not hold: the flag is left as it is.
WriteFailSet_KeepsFlag ==
    /\ pc = "wf_set"
    /\ writer' = WriterAfterRelease(Coord)
    /\ hist' = [hist EXCEPT !.outcome = "dispatch_failed", !.setTrue = FALSE,
                            !.killFailed = FALSE]
    /\ pc' = "ret"
    /\ loc' = NoLocals
    /\ UNCHANGED <<dataVars, running, readers, procVars, mpc>>

\* Faulty WriteFailSet, of which C12 does not hold: Node.run does not return
\* on the failure indicator and goes on to the wait loop.
WriteFailSet_NoReturn ==
    /\ pc = "wf_set"
    /\ running' = FALSE
    /\ writer' = WriterAfterRelease(Coord)
    /\ hist' = [HistWrite(hist, Coord, FALSE) EXCEPT !.setTrue = FALSE,
                                                      !.killFailed = FALSE]
    /\ pc' = "w_init"
    /\ UNCHANGED <<dataVars, readers, procVars, mpc, loc>>

\* NODE_IS_RUNNING = False; release_write(); return -1; Node.run returns
\* (lines 361-363, 284-286)
WriteFailSet ==
    /\ pc = "wf_set"
    /\ running' = FALSE
    /\ writer' = WriterAfterRelease(Coord)
    /\ hist' = [HistWrite(hist, Coord, FALSE) EXCEPT !.outcome = "dispatch_failed",
                                                      !.setTrue = FALSE,
                                                      !.killFailed = FALSE]
    /\ pc' = "ret"
    /\ loc' = NoLocals
    /\ UNCHANGED <<dataVars, readers, procVars, mpc>>

\* Faulty WaitInit, of which C22 does not hold: running is set to true after
\* the frame has been written.
WaitInit_SetsAfterWrite ==
    /\ pc = "w_init"
    /\ running' = TRUE
    /\ loc' = [loc EXCEPT !.flag = TRUE]
    /\ hist' = [hist EXCEPT !.waited = TRUE]
    /\ pc' = "w_test"
    /\ UNCHANGED <<dataVars, lockVars, procVars, mpc>>

\* flag = NODE_IS_RUNNING; start = time.time() (lines 292-293)
WaitInit ==
    /\ pc = "w_init"
    /\ loc' = [loc EXCEPT !.flag = running]
    /\ hist' = [hist EXCEPT !.waited = TRUE]
    /\ pc' = "w_test"
    /\ UNCHANGED <<dataVars, running, lockVars, procVars, mpc>>

\* while flag: (line 294); with flag false the loop is left, the run having
\* timed out or completed.
WaitTest ==
    /\ pc = "w_test"
    /\ pc' = IF loc.flag THEN "w_acq" ELSE "pull"
    /\ hist' = IF loc.flag THEN hist
               ELSE [hist EXCEPT !.outcome = IF hist.timedOut THEN "timed_out"
                                              ELSE "completed"]
    /\ UNCHANGED <<dataVars, running, lockVars, procVars, mpc, loc>>

\* NODE_LOCK.acquire_read() (line 296)
WaitAcq ==
    /\ pc = "w_acq"
    /\ AcquireRead(Coord)
    /\ pc' = "w_read"
    /\ UNCHANGED <<dataVars, running, procVars, mpc, loc, hist>>

\* Faulty WaitSample, of which C10 does not hold: the assignment is the other way
\* round (NODE_IS_RUNNING = flag).
WaitSample_Swapped ==
    /\ pc = "w_read"
    /\ readers' = ReadersAfterRelease(Coord)
    /\ running' = loc.flag
    /\ hist' = HistWrite(hist, Coord, loc.flag)
    /\ \E over \in BOOLEAN :
         /\ over => loc.timeout
         /\ loc.late => over
         /\ loc' = [loc EXCEPT !.late = over]
         /\ pc' = IF over THEN "t_cancel" ELSE "w_test"
    /\ UNCHANGED <<dataVars, writer, procVars, mpc>>

\* flag = NODE_IS_RUNNING; release_read(); the timeout test (lines 297-300).
\* Time only grows: once the timeout has been seen exceeded it stays so.
WaitSample ==
    /\ pc = "w_read"
    /\ readers' = ReadersAfterRelease(Coord)
    /\ \E over \in BOOLEAN :
         /\ over => loc.timeout
         /\ loc.late => over
         /\ loc' = [loc EXCEPT !.flag = running, !.late = over]
         /\ pc' = IF over THEN "t_cancel" ELSE "w_test"
    /\ UNCHANGED <<dataVars, running, writer, procVars, mpc, hist>>

\* Faulty TimeoutCancel, of which C5 does not hold: cancel without the restart.
TimeoutCancel_NoRestart ==
    /\ pc = "t_cancel"
    /\ Cancel(FALSE)
    /\ pc' = "t_acq"
    /\ hist' = [HistRestart(hist) EXCEPT !.timedOut = TRUE]
    /\ UNCHANGED <<dataVars, running, lockVars, loc>>

\* self.cancel() (line 301)
TimeoutCancel ==
    /\ pc = "t_cancel"
    /\ Cancel(TRUE)
    /\ pc' = "t_acq"
    /\ hist' = [HistRestart(hist) EXCEPT !.timedOut = TRUE]
    /\ UNCHANGED <<dataVars, running, lockVars, loc>>

\* NODE_LOCK.acquire_write() (line 302)
TimeoutAcq ==
    /\ pc = "t_acq"
    /\ AcquireWrite(Coord)
    /\ pc' = "t_set"
    /\ UNCHANGED <<dataVars, running, procVars, mpc, loc, hist>>

\* NODE_IS_RUNNING = False; release_write(); print (lines 303-305); the local
\* flag is not touched, so the loop test is made again.
TimeoutSet ==
    /\ pc = "t_set"
    /\ running' = FALSE
    /\ writer' = WriterAfterRelease(Coord)
    /\ hist' = HistWrite(hist, Coord, FALSE)
    /\ pc' = "w_test"
    /\ UNCHANGED <<dataVars, readers, procVars, mpc, loc>>

\* The statements of Node.run inside the try block (lines 296-305)
TryPcs == {"w_acq", "w_read", "t_cancel", "t_acq", "t_set"}
\* The wait loop of Node.run (lines 294-312)
WaitPcs == TryPcs \cup {"w_test", "i_cancel", "i_acq", "i_set"}
\* Every position inside Node.run
RunPcs == WaitPcs \cup {"r_acq", "r_set", "write", "wf_cancel", "wf_acq", "wf_set",
                        "w_init", "pull"}

\* A KeyboardInterrupt reaches the main thread while it is in Node.run: inside
\* the try block the except clause of line 306 takes it; anywhere else it
\* leaves Node.run at once, with whatever the thread holds.
Interrupt ==
    /\ pc \in RunPcs
    /\ hist.nint < MaxInterrupts
    /\ IF pc \in TryPcs
       THEN /\ pc' = "i_cancel"
            /\ loc' = loc
            /\ hist' = [hist EXCEPT !.nint = @ + 1,
                                    !.intWait = @ \/ pc \in WaitPcs]
       ELSE /\ pc' = "ret"
            /\ loc' = NoLocals
            /\ hist' = [hist EXCEPT !.nint = @ + 1, !.outcome = "raised",
                                    !.intWait = @ \/ pc \in WaitPcs,
                                    !.setTrue = FALSE, !.killFailed = FALSE]
    /\ UNCHANGED <<dataVars, running, lockVars, procVars, mpc>>

\* except KeyboardInterrupt: self.cancel() (line 307)
IntCancel ==
    /\ pc = "i_cancel"
    /\ Cancel(TRUE)
    /\ pc' = "i_acq"
    /\ hist' = HistRestart(hist)
    /\ UNCHANGED <<dataVars, running, lockVars, loc>>

\* NODE_LOCK.acquire_write() (line 308)
IntAcq ==
    /\ pc = "i_acq"
    /\ AcquireWrite(Coord)
    /\ pc' = "i_set"
    /\ UNCHANGED <<dataVars, running, procVars, mpc, loc, hist>>

\* NODE_IS_RUNNING = False; release_write(); raise KeyboardInterrupt
\* (lines 309-312)
IntSet ==
    /\ pc = "i_set"
    /\ running' = FALSE
    /\ writer' = WriterAfterRelease(Coord)
    /\ hist' = [HistWrite(hist, Coord, FALSE) EXCEPT !.outcome = "interrupted"]
    /\ pc' = "ret"
    /\ loc' = NoLocals
    /\ UNCHANGED <<dataVars, readers, procVars, mpc>>

\* syncfrom, the merge and return vars (lines 313-316)
Pull ==
    /\ pc = "pull"
    /\ pc' = "ret"
    /\ loc' = NoLocals
    /\ hist' = [hist EXCEPT !.pulled = TRUE]
    /\ UNCHANGED <<dataVars, running, lockVars, procVars, mpc>>

\* Node.run has returned or raised: the caller goes on; what the run did is
\* forgotten.
Return ==
    /\ pc = "ret"
    /\ pc' = "idle"
    /\ hist' = [hist EXCEPT !.outcome = "none", !.cause = "none", !.wrote = "none",
                            !.waited = FALSE, !.timedOut = FALSE, !.nint = 0,
                            !.intWait = FALSE, !.restarts = 0, !.big = FALSE,
                            !.setTrue = FALSE, !.pulled = FALSE, !.byDone = FALSE]
    /\ UNCHANGED <<dataVars, running, lockVars, procVars, mpc, loc>>

\* ------------------------------------------------- Node.clean_lock / clear
CleanLockCall ==
    /\ pc = "idle"
    /\ pc' = "cl"
    /\ UNCHANGED <<dataVars, running, lockVars, procVars, mpc, loc, hist>>

\* NODE_IS_RUNNING = False; NODE_LOCK = ReadWriteLock() (lines 321-322)
CleanLock ==
    /\ pc = "cl"
    /\ running' = FALSE
    /\ hist' = HistWrite(hist, Coord, FALSE)
    /\ writer' = None
    /\ readers' = 0
    /\ pc' = "idle"
    /\ UNCHANGED <<dataVars, procVars, mpc, loc>>

\* Faulty Clear, of which C11 does not hold: clear resets the flag as well.
Clear_ResetsFlag ==
    /\ pc = "idle"
    /\ Cancel(TRUE)
    /\ running' = FALSE
    /\ hist' = HistWrite(hist, Coord, FALSE)
    /\ UNCHANGED <<dataVars, lockVars, pc, loc>>

\* Node.clear: self.cancel()
Clear ==
    /\ pc = "idle"
    /\ Cancel(TRUE)
    /\ UNCHANGED <<dataVars, running, lockVars, pc, loc, hist>>

\* shutdown_hook of bifrost/__init__.py: node.cancel(restart=False) when the
\* host closes; the coordinator makes no call after it.
Shutdown ==
    /\ pc = "idle"
    /\ Cancel(FALSE)
    /\ pc' = "off"
    /\ UNCHANGED <<dataVars, running, lockVars, loc, hist>>

Next ==
    \/ \E p \in Procs : ProcExit(p)
    \/ \E m \in Procs : MonLoop(m)
    \/ \E m \in Procs : MonRead(m)
    \/ \E m \in Procs : MonExitAcq(m)
    \/ \E m \in Procs : MonExitSet(m)
    \/ \E m \in Procs : MonDoneAcq(m)
    \/ \E m \in Procs : MonDoneSet(m)
    \/ \E slen \in ScriptLens, tmo \in BOOLEAN : Run(slen, tmo)
    \/ RunAcq
    \/ RunSet
    \/ Write
    \/ WriteFailCancel
    \/ WriteFailAcq
    \/ WriteFailSet
    \/ WaitInit
    \/ WaitTest
    \/ WaitAcq
    \/ WaitSample
    \/ TimeoutCancel
    \/ TimeoutAcq
    \/ TimeoutSet
    \/ Interrupt
    \/ IntCancel
    \/ IntAcq
    \/ IntSet
    \/ Pull
    \/ Return
    \/ CleanLockCall
    \/ CleanLock
    \/ Clear
    \/ Shutdown

Spec == Init /\ [][Next]_vars

\* ---------------------------------------------------------------- fairness
\* A monitor thread that can take a step takes it; a thread waiting for the
\* lock gets it if the lock is free again and again; readline returns at last
\* for a process that SIGTERM was sent to or that has exited (end-of-file),
\* not for one that keeps running silently.
MonFair(m) ==
    /\ WF_vars(MonLoop(m) \/ MonExitSet(m) \/ MonDoneSet(m))
    /\ WF_vars(MonRead(m) /\ procState[m] \in {"signalled", "exited"})
    /\ SF_vars(MonExitAcq(m) \/ MonDoneAcq(m))

\* The statements of the coordinator inside a call, other than the acquires
CoordStep ==
    \/ RunSet \/ Write \/ WriteFailCancel \/ WriteFailSet
    \/ WaitInit \/ WaitTest \/ WaitSample
    \/ TimeoutCancel \/ TimeoutSet
    \/ IntCancel \/ IntSet
    \/ Pull \/ Return \/ CleanLock

CoordAcquire == RunAcq \/ WriteFailAcq \/ WaitAcq \/ TimeoutAcq \/ IntAcq

\* The coordinator, once in a call, goes on; time passes, so that with a
\* timeout configured a sample is at last taken after the timeout has elapsed.
CoordFair ==
    /\ WF_vars(CoordStep)
    /\ SF_vars(CoordAcquire)
    /\ SF_vars(WaitSample /\ pc' = "t_cancel")

\* The companion at last exits (the case of a companion that ends a script by
\* exiting; one that answers with a completion line is another behaviour of
\* the same specification).
ProcFair == WF_vars(ProcExit(proc))

SpecFair == Spec /\ CoordFair /\ ProcFair /\ \A m \in Procs : MonFair(m)

\* ------------------------------------------------------------ host shutdown
\* SIGSTOP sent to process p (line 62 of __init__.py): a running process is
\* suspended; one that SIGTERM was sent to or that has exited stays as it is
\* (a failure of os.kill is swallowed by the bare except of line 63).
Suspended(ps, p) == IF ps[p] = "alive" THEN [ps EXCEPT ![p] = "suspended"] ELSE ps

\* onEnd of bifrost/__init__.py, registered with atexit: os.kill(pid, SIGSTOP)
\* and nstdproc.stop(), each in its own try block (lines 60-69). It runs when
\* the interpreter exits, after shutdown_hook where that one is registered.
OnEnd ==
    /\ pc \in {"idle", "off"}
    /\ procState' = Suspended(procState, proc)
    /\ stopped' = [stopped EXCEPT ![proc] = TRUE]
    /\ pc' = "ended"
    /\ UNCHANGED <<dataVars, running, lockVars, proc, mpc, loc, hist>>

\* The bridge from its construction to the exit of the host, no script being
\* run: the monitors, the companions, Node.clear and the two exit handlers.
NextEnd ==
    \/ \E p \in Procs : ProcExit(p)
    \/ \E m \in Procs : MonLoop(m)
    \/ \E m \in Procs : MonRead(m)
    \/ \E m \in Procs : MonExitAcq(m)
    \/ \E m \in Procs : MonExitSet(m)
    \/ \E m \in Procs : MonDoneAcq(m)
    \/ \E m \in Procs : MonDoneSet(m)
    \/ Clear
    \/ Shutdown
    \/ OnEnd

SpecEnd == Init /\ [][NextEnd]_vars


\* ------------------------------------------------------------ properties
\* Positions at which the coordinator is between an acquire and its release
CoordSections == {"r_set", "w_read", "t_set", "i_set", "wf_set"}
CoordHolds == writer = Coord \/ readers > 0

\* C1: no monitor that had already been replaced when a frame was dispatched
\* ever clears the running flag of that dispatch: running goes from true to
\* false only by the coordinator or by a monitor of the dispatch's own process
\* or a later one.
C1_NoStaleClear == hist.lastClear # "stale"

\* C2: in the wait loop of Node.run the coordinator holds the run-state lock
\* only between an acquire and the matching release: outside those sections,
\* the interruption handler included, it holds neither the read nor the write
\* lock.
C2_ReleasedInWaitLoop ==
    (pc \in WaitPcs \ CoordSections) => ~CoordHolds

\* C3: a thread about to read or write NODE_IS_RUNNING holds the run-state
\* lock: the write lock for a write, the read or write lock for a read.
C3_AccessUnderLock ==
    /\ pc \in {"r_set", "t_set", "i_set", "wf_set", "cl"} => HoldsWrite(Coord)
    /\ pc \in {"w_init", "w_read"} => (HoldsRead(Coord) \/ HoldsWrite(Coord))
    /\ \A m \in Procs : mpc[m] \in {"x_set", "d_set"} => HoldsWrite(m)

\* C4: the coordinator never calls cancel from the timeout branch after it has
\* sampled running as false: at the timeout's cancel the sampled flag is true.
C4_NoCancelAfterCompletion == pc = "t_cancel" => loc.flag

\* C5: in the timeout branch running is set to false under the write lock, and
\* when a timed-out run returns a new process is in place of the one the frame
\* was dispatched to, its monitor is not stopped, and running is false.
C5_TimedOut ==
    /\ pc = "t_set" => HoldsWrite(Coord)
    /\ (pc = "ret" /\ hist.outcome = "timed_out") =>
          /\ hist.restarts >= 1
          /\ ~stopped[proc]
          /\ ~running

\* C5 witness: a run times out with no completion line and no process exit
\* seen (the coordinator itself cleared the flag) and returns.
C5_Witness ==
    /\ pc = "ret"
    /\ hist.outcome = "timed_out"
    /\ hist.lastClear = "coord"

\* C6: when an interruption that arrived in the wait loop reaches the caller,
\* running is false and a restarted process with a new, running monitor is in
\* place.
C6_InterruptHandled ==
    (pc = "ret" /\ hist.intWait) =>
        /\ hist.outcome \in {"interrupted", "raised"}
        /\ ~running
        /\ hist.restarts >= 1
        /\ ~stopped[proc]

\* C7: a run whose message is refused as too long does not restart the
\* companion: the process and monitor stay the ones of before the run.
C7_OversizedNoRestart == hist.cause = "oversized" => hist.restarts = 0

\* C8: in a run of a script whose message has 16**8 characters or more,
\* nothing is ever written to the companion's stdin, the wait loop is never
\* entered, and unless an interruption ends the run first Node.write refuses
\* the message and the run returns failure.
C8_OversizedNothingWritten ==
    hist.big =>
        /\ hist.wrote = "none"
        /\ ~hist.waited
        /\ pc \in {"r_acq", "r_set", "write", "wf_cancel", "wf_acq", "wf_set", "ret"}
        /\ pc \in {"wf_cancel", "wf_acq", "wf_set"} => hist.cause = "oversized"
        /\ pc = "ret" => hist.outcome \in {"dispatch_failed", "raised"}
        /\ (pc = "ret" /\ hist.nint = 0) =>
              (hist.outcome = "dispatch_failed" /\ hist.cause = "oversized")

\* C8 witness: a run with a too long script has returned failure.
C8_Witness ==
    /\ pc = "ret"
    /\ hist.big
    /\ hist.outcome = "dispatch_failed"

\* C9: after an I/O failure of the frame write the run never enters the wait
\* loop; Node.write returns failure with a restart done and running false, and
\* the only exception that can leave the run instead is an interruption.
C9_WriteFailure ==
    hist.cause = "io" =>
        /\ ~hist.waited
        /\ pc \in {"wf_cancel", "wf_acq", "wf_set", "ret"}
        /\ (pc = "ret" /\ hist.outcome = "dispatch_failed") =>
              (~running /\ hist.restarts >= 1 /\ ~stopped[proc])
        /\ (pc = "ret" /\ hist.outcome # "dispatch_failed") =>
              (hist.outcome = "raised" /\ hist.nint > 0)

\* C9 witness: the write of the frame failed with an I/O error and
\* the run has returned failure.
C9_Witness ==
    /\ pc = "ret"
    /\ hist.cause = "io"
    /\ hist.outcome = "dispatch_failed"

C11_Ownership ==
    /\ [](hist.cause # "none" => ~hist.setTrue)
    /\ [][running' # running =>
            IF running' THEN pc = "r_set"
            ELSE \/ pc \in {"t_set", "i_set"}
                 \/ \E m \in Procs : /\ mpc[m] \in {"x_set", "d_set"}
                                       /\ mpc'[m] # mpc[m]]_vars

\* C11 amended: running goes from false to true only at line 279 of Node.run,
\* before the frame is written; it goes from true to false only at an
\* assignment of the coordinator (timeout, interruption, Node.write's failure
\* handler, clean_lock) or at one of the monitor's two assignments.
C11_OwnershipAmended ==
    [][running' # running =>
          IF running' THEN pc = "r_set"
          ELSE \/ pc \in {"t_set", "i_set", "wf_set", "cl"}
               \/ \E m \in Procs : /\ mpc[m] \in {"x_set", "d_set"}
                                     /\ mpc'[m] # mpc[m]]_vars

\* C11 witness: a run raised the flag, its frame was refused, and Node.write's
\* handler has made the flag go from true to false.
C11_Witness ==
    /\ pc = "ret"
    /\ hist.cause = "oversized"
    /\ hist.lastClear = "coord"
    /\ ~running

\* C12: the pull (syncfrom and the merge into the caller's variables) is done
\* in a run exactly when the run left the wait loop completed or timed out: a
\* run that ends interrupted or with a failed dispatch has done no pull, and a
\* pull is never done after a refused or failed write or after an interrupt.
C12_PullWhenEnded ==
    /\ hist.pulled =>
          /\ pc = "ret"
          /\ hist.waited
          /\ hist.cause = "none"
          /\ hist.nint = 0
    /\ (pc = "ret" /\ hist.outcome \in {"completed", "timed_out"}) => hist.pulled
    /\ (pc = "ret" /\ hist.outcome \in {"interrupted", "dispatch_failed"}) =>
          ~hist.pulled

\* C12 witness: a run has left the wait loop completed and has pulled.
C12_Witness ==
    /\ pc = "ret"
    /\ hist.outcome = "completed"
    /\ hist.pulled

\* C13: in a run that is in the wait loop and has neither timed out nor been
\* interrupted, the monitor of the run's process makes its assignment on the
\* exit path under the write lock, and once the process has exited and its
\* monitor thread has ended running is false, so that the coordinator's next
\* sample ends the loop as after a completion line.
C13_ExitUnblocks ==
    (pc \in WaitPcs /\ ~hist.timedOut /\ hist.nint = 0) =>
        /\ mpc[proc] = "x_set" => HoldsWrite(proc)
        /\ (procState[proc] = "exited" /\ mpc[proc] \in {"dead", "crashed"}) =>
              ~running

\* C14: a monitor that reads, from a process that is alive, a line that is not
\* a completion line goes on to the next line (the top of its loop) and the
\* step leaves running as it is.
C14_OtherLinesHarmless ==
    [][\A m \in Procs :
         (mpc[m] = "read" /\ procState[m] = "alive" /\ mpc'[m] \notin {"read", "d_acq"})
             => (mpc'[m] = "loop" /\ running' = running)]_vars

\* C15: at every moment at most one companion process of the supervisor is
\* live (spawned and not exited; a process that was sent SIGTERM is live until
\* it exits) and at most one monitor thread is running.
C15_OneLiveProcess ==
    /\ Cardinality({p \in Procs : procState[p] \in {"alive", "signalled"}}) <= 1
    /\ Cardinality({m \in Procs : mpc[m] \notin Ended}) <= 1

\* C16: whenever a restart is performed (Node.cancel replaces the process, on
\* the timeout, interruption, write-failure or clear path) the calling thread
\* holds neither the read nor the write lock.
C16_NoLockAcrossRestart == [][proc' # proc => ~CoordHolds]_vars

\* The number of bytes of the payload of a script: the wrapper's, the pad's
\* and those of the tail's escapes
PayloadBytes(t) == NumAdd(t.pad, WrapperLen + Len(Encode(EscapeAll(t.tail))))

\* C17: a script whose payload has fewer than 16**8 bytes is not refused; the
\* frame written is 'E', 8 lowercase hexadecimal digits, 'C' and the payload,
\* the digits give the number of bytes of the payload, and the companion's
\* parse of the frame gives back the script.
C17_FrameRoundTrip ==
    /\ (fpc # "start" /\ ~NumGE(PayloadBytes(wtext), Limit)) => fpc # "refused"
    /\ fpc \in {"sent", "parsed"} =>
          /\ Len(wframe.head) = 10
          /\ wframe.head[1] = "E"
          /\ wframe.head[10] = "C"
          /\ \A i \in 2..9 : \E k \in 1..Radix : wframe.head[i] = HexChars[k]
          /\ HeadValue(wframe.head) = NumAdd(wframe.pad, Len(wframe.body))
          /\ NumAdd(wframe.pad, Len(wframe.body)) = PayloadBytes(wtext)
    /\ fpc = "parsed" => wparsed = wtext

\* C17 witness: a frame for a script with characters outside ASCII, of more
\* than 16**4 bytes, has been written and parsed.
C17_Witness ==
    /\ fpc = "parsed"
    /\ wtext.pad[2] = Half - WrapperLen
    /\ \E i \in 1..Len(wtext.tail) : wtext.tail[i] = "1F600"
    /\ wparsed = wtext

\* C18: the dict Node.run returns after the pull has the names of the
\* caller's dict and of the pulled dict; a pulled name has its pulled value,
\* whether the caller had the name or not, and every other name has the value
\* it had before the run.
C18_Merged ==
    gpc = "done" =>
        /\ DOMAIN cvars = DOMAIN vars0 \cup DOMAIN new_vars
        /\ \A n \in DOMAIN new_vars : cvars[n] = new_vars[n]
        /\ \A n \in DOMAIN vars0 \ DOMAIN new_vars : cvars[n] = vars0[n]

\* C18 witness: the returned dict has a name overwritten, and a name that was
\* not pulled.
C18_Witness ==
    /\ gpc = "done"
    /\ \E n \in DOMAIN vars0 \cap DOMAIN new_vars : vars0[n] # new_vars[n]
    /\ \E n \in DOMAIN vars0 : n \notin DOMAIN new_vars

\* A step in which the coordinator has made the call of Node.cancel of the
\* write-failure, timeout or interruption path (restart left True)
CancelRestartStep ==
    \/ pc = "wf_cancel" /\ pc' = "wf_acq"
    \/ pc = "t_cancel" /\ pc' = "t_acq"
    \/ pc = "i_cancel" /\ pc' = "i_acq"

\* C19: every call of Node.cancel returns with the monitor of the process it
\* was called on asked to stop, also when os.kill raised; with restart a new
\* process that is alive and a new monitor that is started and not asked to
\* stop are in place, without restart the process and the monitors are the
\* same as before.
C19_CancelSwallows ==
    [][/\ CancelRestartStep =>
            /\ stopped'[proc]
            /\ proc' # proc
            /\ procState'[proc'] = "alive"
            /\ mpc'[proc'] = "loop"
            /\ ~stopped'[proc']
       /\ (pc = "idle" /\ pc' = "off") =>
            /\ stopped'[proc]
            /\ proc' = proc
            /\ mpc' = mpc
            /\ \A p \in Procs : procState'[p] = "alive" => procState[p] = "alive"]_vars

\* C19 witness: Node.write's handler has called Node.cancel on a process that
\* had exited and been collected; os.kill raised, and the new process and its
\* monitor are in place.
C19_Witness ==
    /\ pc = "wf_acq"
    /\ hist.killFailed
    /\ procState[proc] = "alive"
    /\ mpc[proc] = "loop"
    /\ ~stopped[proc]

\* What a caller finds after a run that the exit of the companion unblocked:
\* the flag down, the lock free, the first process exited and collected, its
\* monitor thread ended, nothing else ever started.
AfterExitLook ==
    /\ ~running
    /\ writer = None
    /\ readers = 0
    /\ proc = 1
    /\ procState[proc] = "exited"
    /\ mpc[proc] = "dead"
    /\ ~stopped[proc]
    /\ \A p \in Procs \ {proc} : procState[p] = "none" /\ mpc[p] = "none"

\* C20: the state a run leaves tells what unblocked it: a run whose wait a
\* completion line unblocked does not leave the bridge in the state in which a
\* run unblocked by the process's exit leaves it.
C20_CauseDistinct ==
    (pc = "ret" /\ hist.pulled /\ hist.byDone) => ~AfterExitLook

\* C22: running is set to true under the write lock and before any byte of
\* the frame is written, so the completion line that answers a dispatch is
\* handled after the set: once a completion line has cleared the flag of a
\* written frame, the coordinator in the wait loop does not find running true
\* again (it does not wait on a run whose completion was consumed).
C22_SetBeforeWrite ==
    /\ pc = "r_set" => HoldsWrite(Coord)
    /\ hist.wrote # "none" => hist.dispatched
    /\ (pc \in {"w_init"} \cup WaitPcs /\ hist.byDone) => ~running

\* C22 witness: the coordinator is in the wait loop, about to sample, and the
\* completion line of the frame it wrote has been handled.
C22_Witness ==
    /\ pc = "w_acq"
    /\ hist.byDone
    /\ hist.lastClear = "monitor"
    /\ ~running

\* C24: a run that times out makes exactly one cancel(restart=True) between
\* the moment the timeout is seen and the moment the wait loop is left: the
\* process that is in place when the run returns is the one that one restart
\* started.
C24_OneRestart ==
    (pc = "ret" /\ hist.outcome = "timed_out" /\ hist.nint = 0) => hist.restarts = 1

\* C25: whenever Node.run is not executing, having returned or an exception
\* or interruption having left it from any point, running is false.
C25_IdleNotRunning == pc \in {"ret", "idle"} => ~running

\* C28: clean_lock is safe next to a live monitor: a monitor releases the lock
\* instance it acquired (at its release it is the holder), and when clean_lock
\* has returned the lock has no holder and running is false.
C28_CleanLockSafe ==
    [][/\ \A m \in Procs :
            (mpc[m] \in {"x_set", "d_set"} /\ mpc'[m] # mpc[m]) => HoldsWrite(m)
       /\ (pc = "cl" /\ pc' # "cl") =>
            (writer' = None /\ readers' = 0 /\ ~running')]_vars

\* C21: when a shutdown handler of the host has run, the companion process is
\* destroyed, not merely suspended: it has been sent the terminate signal or
\* has exited, and its monitor has been asked to stop.
C21_ShutdownDestroys ==
    pc \in {"off", "ended"} =>
        /\ procState[proc] \in {"signalled", "exited"}
        /\ stopped[proc]

\* C23: once cancel has set the stop event of a monitor, the monitor begins no
\* new iteration (it does not go from the loop test, or from anywhere else, to
\* readline again: the iteration in progress is the last), and it terminates.
C23_StopsWithinOneIteration ==
    /\ [][\A m \in Procs :
             (stopped[m] /\ stopped'[m] /\ mpc'[m] = "read") => mpc[m] = "read"]_vars
    /\ \A m \in Procs :
          stopped[m] ~> (mpc[m] \in Ended)

\* C26: under fair scheduling every run that is in the wait loop leaves it and
\* Node.run is left: always when a timeout is configured, and without one when the
\* companion at last answers with a completion line or exits (which it does
\* under ProcFair). A run that an interruption ends is not in question.
C26_RunTerminates ==
    (pc \in WaitPcs) ~> (pc \notin RunPcs \/ hist.nint > 0)

\* C27: a call of Node.run given no vars pushes the empty variable set and
\* returns just what that run pulled, whatever earlier runs did: what an
\* earlier run without vars pulled and merged is neither pushed again nor
\* returned.
C27_DefaultVarsEmpty ==
    /\ (dpc \in {"synced", "ret"} /\ byDefault) => pushed = EmptyDict
    /\ (dpc = "ret" /\ byDefault) => CallVars = pulledv

====
